---- MODULE Spec2Model ----
(***************************************************************************)
(* DefaultRenderingPipeline (validatedNativeDataStream.ts, lines 55-560):  *)
(* the build/rebuild state machine of the post-process chain, the chain    *)
(* link policy (auto-clear and output sharing) and the lifecycle of the    *)
(* effect instances.                                                       *)
(*                                                                         *)
(* Object references are positive integers handed out by nextId; 0 is the  *)
(* null reference.  A DepthOfFieldEffect and its _depthOfFieldMerge pass   *)
(* are one object and carry one reference.  The fields autoClear and       *)
(* output of a pass are partial maps: a pass is in their domain once the   *)
(* pipeline has assigned the field, before that it carries whatever its    *)
(* constructor left.  Shader compilation (isReady / updateEffect) is not   *)
(* part of the state.                                                      *)
(***************************************************************************)
EXTENDS Integers, Sequences, FiniteSets, TLC

\* ------------------------------------------------------------------ bounds
MaxCameras == 2      \* cameras handed to the constructor: 0..MaxCameras
MaxId == 6           \* references available to effect instances

\* ------------------------------------------------------- program constants
InitialBloomScale == 60      \* _bloomScale = 0.6, in hundredths
InitialBloomKernel == 64     \* bloomKernel = 64
InitialBloomWeight == 15     \* _bloomWeight = 0.15, in hundredths

Null == 0
\* Values given to the bloomScale setter, in hundredths: 0.6 and 0.25.
BloomScales == {InitialBloomScale, 25}
CameraLists == { [i \in 1..n |-> i] : n \in 0..MaxCameras }
Families == {"Sharpen", "DepthOfField", "Bloom", "FXAA", "ChromaticAberration"}
\* Values assigned to bloomKernel and given to the bloomWeight setter.
BloomKernels == {InitialBloomKernel, 32}
BloomWeights == {InitialBloomWeight, 40}
\* DepthOfFieldEffectBlurLevel values given to the depthOfFieldBlurLevel setter.
BlurLevels == {"Low", "High"}
\* The tunable fields of a DepthOfFieldEffect; 0 stands for the value its
\* constructor leaves, 1 for a value the user has put there.
LensFields == {"focalLength", "focusDistance", "fStop", "lensSize"}
LensValues == {0, 1}
DefaultLens == [ f \in LensFields |-> 0 ]
\* engine.getCaps(): the two capabilities the constructor reads.
Caps == [textureHalfFloatRender : BOOLEAN, textureFloatRender : BOOLEAN]
TextureTypes == {"TEXTURETYPE_HALF_FLOAT", "TEXTURETYPE_FLOAT", "TEXTURETYPE_UNSIGNED_INT"}

VARIABLES
    sharpenEnabled, bloomEnabled, depthOfFieldEnabled, fxaaEnabled,
    chromaticAberrationEnabled,
    buildAllowed,
    bloomScale,
    originalCameras,        \* _originalCameras
    cameras,                \* _cameras
    sharpen, depthOfField, bloom, fxaa, imageProcessing, chromaticAberration,
    renderEffects,          \* the chain: sequence of [fam, inst]
    prevPostProcess, prevPrevPostProcess,
    autoClear,              \* pass reference -> BOOLEAN, once assigned
    output,                 \* pass reference -> Null (own output) or the pass shared with
    scaleOf,                \* BloomEffect reference -> scale it was constructed with
    attachedCameras,        \* cameras the pipeline manager has this pipeline attached to
    nextId,
    msaaEnabled, imageProcessingEnabled,
    depthOfFieldBlurLevel,
    bloomKernel, bloomWeight,
    hdr,                    \* _hdr
    defaultPipelineTextureType,
    caps,                   \* the capabilities of the scene's engine
    webGL2,                 \* whether the engine can multisample a pass
    kernelOf,               \* BloomEffect reference -> kernel it was constructed with
    weightOf,               \* BloomEffect reference -> merge weight, once assigned
    blurOf,                 \* DepthOfFieldEffect reference -> blur level it was constructed with
    lensOf,                 \* DepthOfFieldEffect reference -> its tunable fields
    multisampled,           \* passes MSAA has been enabled on
    disposed                \* instances dispose / disposeEffects has been called on

vars == << sharpenEnabled, bloomEnabled, depthOfFieldEnabled, fxaaEnabled,
           chromaticAberrationEnabled, buildAllowed, bloomScale,
           originalCameras, cameras,
           sharpen, depthOfField, bloom, fxaa, imageProcessing, chromaticAberration,
           renderEffects, prevPostProcess, prevPrevPostProcess,
           autoClear, output, scaleOf, attachedCameras, nextId,
           msaaEnabled, imageProcessingEnabled, depthOfFieldBlurLevel,
           bloomKernel, bloomWeight, hdr, defaultPipelineTextureType, caps, webGL2,
           kernelOf, weightOf, blurOf, lensOf, multisampled, disposed >>

\* The pipeline object and the objects it references, as one record.
This ==
    [ sharpenEnabled |-> sharpenEnabled, bloomEnabled |-> bloomEnabled,
      depthOfFieldEnabled |-> depthOfFieldEnabled, fxaaEnabled |-> fxaaEnabled,
      chromaticAberrationEnabled |-> chromaticAberrationEnabled,
      buildAllowed |-> buildAllowed, bloomScale |-> bloomScale,
      originalCameras |-> originalCameras, cameras |-> cameras,
      sharpen |-> sharpen, depthOfField |-> depthOfField, bloom |-> bloom,
      fxaa |-> fxaa, imageProcessing |-> imageProcessing,
      chromaticAberration |-> chromaticAberration,
      renderEffects |-> renderEffects,
      prevPostProcess |-> prevPostProcess, prevPrevPostProcess |-> prevPrevPostProcess,
      autoClear |-> autoClear, output |-> output, scaleOf |-> scaleOf,
      attachedCameras |-> attachedCameras, nextId |-> nextId,
      msaaEnabled |-> msaaEnabled, imageProcessingEnabled |-> imageProcessingEnabled,
      depthOfFieldBlurLevel |-> depthOfFieldBlurLevel,
      bloomKernel |-> bloomKernel, bloomWeight |-> bloomWeight,
      hdr |-> hdr, defaultPipelineTextureType |-> defaultPipelineTextureType,
      caps |-> caps, webGL2 |-> webGL2,
      kernelOf |-> kernelOf, weightOf |-> weightOf,
      blurOf |-> blurOf, lensOf |-> lensOf,
      multisampled |-> multisampled, disposed |-> disposed,
      \* bookkeeping of the operation in progress
      rebuilds |-> 0, threw |-> FALSE, disposals |-> << >>, created |-> {},
      calls |-> << >>, warnings |-> 0 ]

Range(s) == { s[i] : i \in DOMAIN s }

\* f with f[k] = v, k added to the domain when new.
Assign(f, k, v) == [ x \in (DOMAIN f) \cup {k} |-> IF x = k THEN v ELSE f[x] ]

\* An uncaught exception: the rest of the running operation is skipped.
Throw(p) == [p EXCEPT !.threw = TRUE]

\* --------------------------------------------- base class and collaborators

\* PostProcessRenderPipeline.addEffect: the effect goes to the end of the chain.
AddEffect(p, fam, inst) ==
    [p EXCEPT !.renderEffects = Append(@, [fam |-> fam, inst |-> inst])]

\* PostProcessRenderPipeline._reset: the chain list is emptied.
Reset(p) == [p EXCEPT !.renderEffects = << >>]

\* One call on a collaborator, with the number of dispose calls made before it.
Call(p, name, cams) == [call |-> name, cameras |-> cams, disposalsBefore |-> Len(p.disposals)]

\* postProcessRenderPipelineManager.detachCamerasFromRenderPipeline(name, cams)
DetachCamerasFromRenderPipeline(p, cams) ==
    [p EXCEPT !.attachedCameras = @ \ Range(cams),
              !.calls = Append(@, Call(p, "detachCamerasFromRenderPipeline", cams))]

\* postProcessRenderPipelineManager.attachCamerasToRenderPipeline(name, cams)
AttachCamerasToRenderPipeline(p, cams) ==
    [p EXCEPT !.attachedCameras = @ \cup Range(cams),
              !.calls = Append(@, Call(p, "attachCamerasToRenderPipeline", cams))]

\* PostProcessRenderPipeline._enableMSAAOnFirstPostProcess: the first pass of
\* the chain is multisampled when the engine can and the chain has a pass.
MSAAAvailable(p) == p.webGL2 /\ p.renderEffects # << >>

EnableMSAAOnFirstPostProcess(p) ==
    LET p1 == [p EXCEPT !.calls = Append(@, Call(p, "_enableMSAAOnFirstPostProcess", << >>))]
    IN  IF MSAAAvailable(p)
        THEN [p1 EXCEPT !.multisampled = @ \cup { p.renderEffects[1].inst }]
        ELSE p1

\* BABYLON.Tools.Warn
Warn(p) == [p EXCEPT !.warnings = @ + 1]

\* new X(...): a fresh reference.
New(p) == [p EXCEPT !.nextId = @ + 1, !.created = @ \cup {p.nextId}]

\* ------------------------------------------------------ _disposePostProcesses

\* One dispose(camera) / disposeEffects(camera) call.
Disposal(fam, inst, camera) == [fam |-> fam, inst |-> inst, camera |-> camera]

\* The body of the loop over _cameras, with its null checks, in call order.
DisposeForCamera(p, camera, disposeNonRecreated) ==
    (IF p.imageProcessing # Null
        THEN << Disposal("ImageProcessing", p.imageProcessing, camera) >> ELSE << >>)
    \o (IF p.fxaa # Null THEN << Disposal("FXAA", p.fxaa, camera) >> ELSE << >>)
    \o (IF disposeNonRecreated /\ p.sharpen # Null
        THEN << Disposal("Sharpen", p.sharpen, camera) >> ELSE << >>)
    \o (IF disposeNonRecreated /\ p.depthOfField # Null
        THEN << Disposal("DepthOfField", p.depthOfField, camera) >> ELSE << >>)
    \o (IF disposeNonRecreated /\ p.bloom # Null
        THEN << Disposal("Bloom", p.bloom, camera) >> ELSE << >>)
    \o (IF disposeNonRecreated /\ p.chromaticAberration # Null
        THEN << Disposal("ChromaticAberration", p.chromaticAberration, camera) >>
        ELSE << >>)

RECURSIVE DisposeLoop(_, _, _)
DisposeLoop(p, cams, disposeNonRecreated) ==
    IF cams = << >> THEN << >>
    ELSE DisposeForCamera(p, Head(cams), disposeNonRecreated)
         \o DisposeLoop(p, Tail(cams), disposeNonRecreated)

\* Mutant of DisposePostProcesses: the long-lived effects go on every call.
DisposePostProcessesLongLived(p, disposeNonRecreated) ==
    [p EXCEPT !.disposals = @ \o DisposeLoop(p, p.cameras, TRUE),
              !.imageProcessing = Null, !.fxaa = Null,
              !.sharpen = Null, !.depthOfField = Null,
              !.bloom = Null, !.chromaticAberration = Null]

DisposePostProcesses(p, disposeNonRecreated) ==
    LET p1 == [p EXCEPT !.disposals = @ \o DisposeLoop(p, p.cameras, disposeNonRecreated),
                        !.imageProcessing = Null,
                        !.fxaa = Null]
    IN  IF disposeNonRecreated
        THEN [p1 EXCEPT !.sharpen = Null, !.depthOfField = Null,
                        !.bloom = Null, !.chromaticAberration = Null]
        ELSE p1

\* --------------------------------------------- _setAutoClearAndTextureSharing

\* Mutant of NextAutoClear: every pass auto-clears.
NextAutoClearAlways(p) == TRUE

\* The autoClear value given to the next pass.
NextAutoClear(p) ==
    ~ (p.prevPostProcess # Null /\ p.autoClear[p.prevPostProcess])

\* Mutant of NextOutput: share with the pass just before.
NextOutputPrevious(p) == p.prevPostProcess

\* The pass the next pass shares its output with; Null: useOwnOutput().
NextOutput(p) == p.prevPrevPostProcess

SetAutoClearAndTextureSharing(p, postProcess, skipTextureSharing) ==
    LET p1 == [p EXCEPT !.autoClear = Assign(@, postProcess, NextAutoClear(p))]
    IN  IF skipTextureSharing THEN p1
        ELSE [p1 EXCEPT !.output = Assign(@, postProcess, NextOutput(p)),
                        !.prevPrevPostProcess =
                            IF p.prevPostProcess # Null THEN p.prevPostProcess ELSE @,
                        !.prevPostProcess = postProcess]

\* -------------------------------------------------------------- _buildPipeline

\* Mutant of DetachAndRestoreCameras: the cameras taken off stay off.
DetachWithoutRestore(p) == DetachCamerasFromRenderPipeline(p, p.cameras)

\* Lines 425-429: detach, then take the configured cameras back.
DetachAndRestoreCameras(p) ==
    [DetachCamerasFromRenderPipeline(p, p.cameras)
        EXCEPT !.cameras = p.originalCameras]

\* Mutant of ResetChainPosition: the fields keep the last rebuild's passes.
ResetChainPositionKept(p) == p

\* Lines 431-432.
ResetChainPosition(p) ==
    [p EXCEPT !.prevPostProcess = Null, !.prevPrevPostProcess = Null]

\* Mutant of BuildSharpen: the sharpen pass is made anew, like the FXAA pass.
BuildSharpenRecreated(p) ==
    IF p.threw \/ ~p.sharpenEnabled THEN p
    ELSE LET p1 == [New(p) EXCEPT !.sharpen = p.nextId]
         IN  SetAutoClearAndTextureSharing(AddEffect(p1, "Sharpen", p1.sharpen),
                                           p1.sharpen, FALSE)

BuildSharpen(p) ==
    IF p.threw \/ ~p.sharpenEnabled THEN p
    ELSE IF p.sharpen = Null THEN Throw(p)          \* this.sharpen.isReady()
    ELSE SetAutoClearAndTextureSharing(AddEffect(p, "Sharpen", p.sharpen),
                                       p.sharpen, FALSE)

\* depthOk: whether enableDepthRenderer(undefined) yields a depth renderer
\* when the pipeline has no camera; with a camera it does.
BuildDepthOfField(p, depthOk) ==
    IF p.threw \/ ~p.depthOfFieldEnabled THEN p
    ELSE IF p.cameras = << >> /\ ~depthOk THEN Throw(p)
    ELSE IF p.depthOfField = Null THEN Throw(p)     \* this.depthOfField.depthTexture =
    ELSE SetAutoClearAndTextureSharing(AddEffect(p, "DepthOfField", p.depthOfField),
                                       p.depthOfField, FALSE)

\* Mutant of BuildBloom: the bloomEnabled test is lost.
BuildBloomUnconditional(p) ==
    IF p.threw THEN p
    ELSE IF p.bloom = Null THEN Throw(p)
    ELSE AddEffect(p, "Bloom", p.bloom)

BuildBloom(p) ==
    IF p.threw \/ ~p.bloomEnabled THEN p
    ELSE IF p.bloom = Null THEN Throw(p)            \* this.bloom._isReady()
    ELSE AddEffect(p, "Bloom", p.bloom)

BuildFxaa(p) ==
    IF p.threw \/ ~p.fxaaEnabled THEN p
    ELSE LET p1 == [New(p) EXCEPT !.fxaa = p.nextId]
         IN  SetAutoClearAndTextureSharing(AddEffect(p1, "FXAA", p1.fxaa),
                                           p1.fxaa, FALSE)

BuildChromaticAberration(p) ==
    IF p.threw \/ ~p.chromaticAberrationEnabled THEN p
    ELSE IF p.chromaticAberration = Null THEN Throw(p)
    ELSE SetAutoClearAndTextureSharing(
             AddEffect(p, "ChromaticAberration", p.chromaticAberration),
             p.chromaticAberration, FALSE)

\* Mutant of BuildEffects: anti-aliasing moved behind chromatic aberration.
BuildEffectsAntiAliasLast(p, depthOk) ==
    BuildFxaa(
        BuildChromaticAberration(BuildBloom(BuildDepthOfField(BuildSharpen(p), depthOk))))

\* Lines 434-471: the effect families in source order.
BuildEffects(p, depthOk) ==
    BuildChromaticAberration(
        BuildFxaa(BuildBloom(BuildDepthOfField(BuildSharpen(p), depthOk))))

\* Lines 473-475.
AttachAfterBuild(p) ==
    IF p.threw THEN p ELSE AttachCamerasToRenderPipeline(p, p.cameras)

\* Mutant of EnableMSAA: multisampling is attempted whatever msaaEnabled is.
EnableMSAAAlways(p) ==
    IF p.threw THEN p
    ELSE IF MSAAAvailable(p) THEN EnableMSAAOnFirstPostProcess(p)
    ELSE Warn(EnableMSAAOnFirstPostProcess(p))

\* Lines 477-481.
EnableMSAA(p) ==
    IF p.threw \/ ~p.msaaEnabled THEN p
    ELSE IF MSAAAvailable(p) THEN EnableMSAAOnFirstPostProcess(p)
    ELSE Warn(EnableMSAAOnFirstPostProcess(p))

\* Lines 422-481: a rebuild that runs.
RunBuild(p, depthOk) ==
    LET p0 == [p EXCEPT !.rebuilds = @ + 1]
        p1 == DisposePostProcesses(p0, FALSE)
        p2 == DetachAndRestoreCameras(p1)
        p3 == ResetChainPosition(Reset(p2))
    IN  EnableMSAA(AttachAfterBuild(BuildEffects(p3, depthOk)))

\* Mutant of BuildPipeline: the buildAllowed gate is lost.
BuildPipelineUngated(p, depthOk) == RunBuild(p, depthOk)

BuildPipeline(p, depthOk) ==
    IF ~p.buildAllowed THEN p ELSE RunBuild(p, depthOk)

\* ------------------------------------------------------------------- setters

SetSharpenEnabled(p, enabled, depthOk) ==
    IF p.sharpenEnabled = enabled THEN p
    ELSE BuildPipeline([p EXCEPT !.sharpenEnabled = enabled], depthOk)

SetBloomEnabled(p, enabled, depthOk) ==
    IF p.bloomEnabled = enabled THEN p
    ELSE BuildPipeline([p EXCEPT !.bloomEnabled = enabled], depthOk)

SetDepthOfFieldEnabled(p, enabled, depthOk) ==
    IF p.depthOfFieldEnabled = enabled THEN p
    ELSE BuildPipeline([p EXCEPT !.depthOfFieldEnabled = enabled], depthOk)

SetFxaaEnabled(p, enabled, depthOk) ==
    IF p.fxaaEnabled = enabled THEN p
    ELSE BuildPipeline([p EXCEPT !.fxaaEnabled = enabled], depthOk)

SetChromaticAberrationEnabled(p, enabled, depthOk) ==
    IF p.chromaticAberrationEnabled = enabled THEN p
    ELSE BuildPipeline([p EXCEPT !.chromaticAberrationEnabled = enabled], depthOk)

\* oldBloom.disposeEffects(camera) for every camera of _cameras (lines 188-190).
RECURSIVE DisposeEffectsLoop(_, _, _)
DisposeEffectsLoop(fam, inst, cams) ==
    IF cams = << >> THEN << >>
    ELSE << Disposal(fam, inst, Head(cams)) >> \o DisposeEffectsLoop(fam, inst, Tail(cams))

\* Mutant of SetBloomScale: the old BloomEffect is not disposed.
SetBloomScaleLeaking(p, value, depthOk) ==
    IF p.bloomScale = value THEN p
    ELSE BuildPipeline([New(p) EXCEPT !.bloomScale = value,
                                      !.bloom = p.nextId,
                                      !.scaleOf = Assign(@, p.nextId, value),
                                      !.kernelOf = Assign(@, p.nextId, p.bloomKernel)],
                       depthOk)

SetBloomScale(p, value, depthOk) ==
    IF p.bloomScale = value THEN p
    ELSE LET oldBloom == p.bloom
             p1 == [New(p) EXCEPT !.bloomScale = value,
                                  !.bloom = p.nextId,
                                  !.scaleOf = Assign(@, p.nextId, value),
                                  !.kernelOf = Assign(@, p.nextId, p.bloomKernel)]
         IN  IF oldBloom = Null /\ p1.cameras # << >>
             THEN Throw(p1)                         \* oldBloom.disposeEffects on null
             ELSE BuildPipeline(
                    [p1 EXCEPT !.disposals = @ \o DisposeEffectsLoop("Bloom", oldBloom, p1.cameras)],
                    depthOk)

\* Mutant of SetMsaaEnabled: the flag is stored and nothing is rebuilt.
SetMsaaEnabledStoredOnly(p, enabled, depthOk) == [p EXCEPT !.msaaEnabled = enabled]

SetMsaaEnabled(p, enabled, depthOk) ==
    IF p.msaaEnabled = enabled THEN p
    ELSE BuildPipeline([p EXCEPT !.msaaEnabled = enabled], depthOk)

SetImageProcessingEnabled(p, enabled, depthOk) ==
    IF p.imageProcessingEnabled = enabled THEN p
    ELSE BuildPipeline([p EXCEPT !.imageProcessingEnabled = enabled], depthOk)

\* bloomKernel is a public field: an assignment stores the value.
SetBloomKernel(p, value) == [p EXCEPT !.bloomKernel = value]

\* Mutant of SetBloomWeight: the weight goes into a new BloomEffect.
SetBloomWeightReplacing(p, value) ==
    IF p.bloomWeight = value THEN p
    ELSE [New(p) EXCEPT !.bloom = p.nextId,
                        !.weightOf = Assign(@, p.nextId, value),
                        !.bloomWeight = value]

\* The merge pass of a BloomEffect has the bloom option the setter tests for.
SetBloomWeight(p, value) ==
    IF p.bloomWeight = value THEN p
    ELSE IF p.bloom = Null THEN Throw(p)            \* this.bloom._merge on null
    ELSE [p EXCEPT !.weightOf = Assign(@, p.bloom, value),
                   !.bloomWeight = value]

\* Mutant of CopyLens: lensSize is not carried over.
CopyLensWithoutLensSize(old, new) ==
    [ f \in LensFields |-> IF f = "lensSize" THEN new[f] ELSE old[f] ]

\* Lines 252-255: the four fields of the new effect, taken from the old one.
CopyLens(old, new) == [ f \in LensFields |-> old[f] ]

SetDepthOfFieldBlurLevel(p, value, depthOk) ==
    IF p.depthOfFieldBlurLevel = value THEN p
    ELSE LET oldDof == p.depthOfField
             p1 == [New(p) EXCEPT !.depthOfFieldBlurLevel = value,
                                  !.depthOfField = p.nextId,
                                  !.blurOf = Assign(@, p.nextId, value),
                                  !.lensOf = Assign(@, p.nextId, DefaultLens)]
         IN  IF oldDof = Null
             THEN Throw(p1)                         \* oldDof.focalLength on null
             ELSE BuildPipeline(
                    [p1 EXCEPT !.lensOf = Assign(@, p.nextId,
                                                 CopyLens(p.lensOf[oldDof], DefaultLens)),
                               !.disposals = @ \o DisposeEffectsLoop("DepthOfField", oldDof,
                                                                      p1.cameras)],
                    depthOk)

\* pipeline.depthOfField.<field> = value, by the owner of the pipeline.
TuneDepthOfField(p, field, value) ==
    IF p.depthOfField = Null THEN Throw(p)
    ELSE [p EXCEPT !.lensOf = Assign(@, p.depthOfField,
                                     [p.lensOf[p.depthOfField] EXCEPT ![field] = value])]

\* ------------------------------------------------------- prepare and dispose

\* Mutant of Prepare: the previous state of the gate is not put back.
PrepareLeavesAllowed(p, depthOk) ==
    BuildPipeline([p EXCEPT !.buildAllowed = TRUE], depthOk)

Prepare(p, depthOk) ==
    LET previousState == p.buildAllowed
        p1 == BuildPipeline([p EXCEPT !.buildAllowed = TRUE], depthOk)
    IN  IF p1.threw THEN p1 ELSE [p1 EXCEPT !.buildAllowed = previousState]

\* Mutant of Dispose: the pipeline stays attached to its cameras.
DisposeStaysAttached(p) == DisposePostProcesses(p, TRUE)

Dispose(p) ==
    LET p1 == DisposePostProcesses(p, TRUE)
    IN  DetachCamerasFromRenderPipeline(p1, p1.cameras)

\* A camera taken off the pipeline from outside, through the pipeline manager.
RemoveCamera(p, camera) ==
    [DetachCamerasFromRenderPipeline(p, << camera >>)
        EXCEPT !.cameras = SelectSeq(@, LAMBDA c : c # camera)]

\* --------------------------------------------------------------- constructor

\* Mutant of TextureTypeFor: float is preferred to half-float.
TextureTypeForFloatFirst(hdrStored, capsRead) ==
    IF hdrStored
    THEN IF capsRead.textureFloatRender THEN "TEXTURETYPE_FLOAT"
         ELSE "TEXTURETYPE_HALF_FLOAT"
    ELSE "TEXTURETYPE_UNSIGNED_INT"

\* Lines 353-362.  With _hdr true one of the two capabilities is present.
TextureTypeFor(hdrStored, capsRead) ==
    IF hdrStored
    THEN IF capsRead.textureHalfFloatRender THEN "TEXTURETYPE_HALF_FLOAT"
         ELSE "TEXTURETYPE_FLOAT"
    ELSE "TEXTURETYPE_UNSIGNED_INT"

\* Line 350.
StoredHdr(hdrRequested, capsRead) ==
    hdrRequested /\ (capsRead.textureHalfFloatRender \/ capsRead.textureFloatRender)

\* new DefaultRenderingPipeline(name, hdr, scene, cameras, automaticBuild) on a
\* scene whose engine has the capabilities capsRead and multisamples iff canMSAA.
Construct(hdrRequested, capsRead, canMSAA, cams, automaticBuild) ==
    BuildPipeline(
        [ sharpenEnabled |-> FALSE, bloomEnabled |-> FALSE,
          depthOfFieldEnabled |-> FALSE, fxaaEnabled |-> FALSE,
          chromaticAberrationEnabled |-> FALSE,
          buildAllowed |-> automaticBuild, bloomScale |-> InitialBloomScale,
          originalCameras |-> cams, cameras |-> cams,
          sharpen |-> 1, depthOfField |-> 2, bloom |-> 3,
          fxaa |-> Null, imageProcessing |-> Null,
          chromaticAberration |-> 4,
          renderEffects |-> << >>,
          prevPostProcess |-> Null, prevPrevPostProcess |-> Null,
          autoClear |-> << >>, output |-> << >>,
          scaleOf |-> Assign(<< >>, 3, InitialBloomScale),
          attachedCameras |-> {}, nextId |-> 5,
          msaaEnabled |-> FALSE, imageProcessingEnabled |-> TRUE,
          depthOfFieldBlurLevel |-> "Low",
          bloomKernel |-> InitialBloomKernel, bloomWeight |-> InitialBloomWeight,
          hdr |-> StoredHdr(hdrRequested, capsRead),
          defaultPipelineTextureType |->
              TextureTypeFor(StoredHdr(hdrRequested, capsRead), capsRead),
          caps |-> capsRead, webGL2 |-> canMSAA,
          kernelOf |-> Assign(<< >>, 3, InitialBloomKernel),
          weightOf |-> << >>,
          blurOf |-> Assign(<< >>, 2, "Low"),
          lensOf |-> Assign(<< >>, 2, DefaultLens),
          multisampled |-> {}, disposed |-> {},
          rebuilds |-> 0, threw |-> FALSE, disposals |-> << >>, created |-> {1, 2, 3, 4},
          calls |-> << >>, warnings |-> 0 ],
        TRUE)

\* A pipeline without HDR, on an engine without float render targets and
\* without multisampling.
Constructor(cams, automaticBuild) ==
    Construct(FALSE,
              [textureHalfFloatRender |-> FALSE, textureFloatRender |-> FALSE],
              FALSE, cams, automaticBuild)

\* ------------------------------------------------------- serialize and Parse

\* The members of the serialized object that Parse reads, with the tag.
Serialize(p) ==
    [ customType |-> "DefaultRenderingPipeline", name |-> "pipeline", hdr |-> p.hdr ]

\* The constructor argument source._name._hdr (line 556): _name is the name
\* of the pipeline, a string, and a string has no _hdr: the argument is
\* undefined, which `hdr && ...` in the constructor takes as false.
ParseHdrArgument(source) == FALSE

\* The pipeline the callback of Parse constructs on an engine: no cameras,
\* automaticBuild left to its default.  _defaultPipelineTextureType is not a
\* serialized member, so it stays as constructed.
Parse(source, capsRead, canMSAA) ==
    Construct(ParseHdrArgument(source), capsRead, canMSAA, << >>, TRUE)

\* The passes of the chain, with the two the chain-position fields name.  The
\* autoClear and output of any other pass are assigned again before they are
\* read (NextAutoClear reads the pass the same rebuild has just linked), so
\* they are not kept.
Linked(p) ==
    ({ p.prevPostProcess, p.prevPrevPostProcess }
     \cup { p.renderEffects[i].inst : i \in DOMAIN p.renderEffects }) \ {Null}

\* The BloomEffect objects the pipeline can still reach.
Blooms(p) ==
    ({ p.bloom } \cup { p.renderEffects[i].inst : i \in DOMAIN p.renderEffects }) \ {Null}

Collect(f, kept) == [ x \in (DOMAIN f) \cap kept |-> f[x] ]

\* The effect objects the pipeline can still reach: its handles, its chain and
\* its chain-position fields.
Live(p) ==
    Linked(p) \cup ({ p.sharpen, p.depthOfField, p.bloom, p.fxaa, p.imageProcessing,
                      p.chromaticAberration } \ {Null})

\* The instances that have been disposed once the calls of p are made.
Disposed(p) == p.disposed \cup { p.disposals[i].inst : i \in DOMAIN p.disposals }

\* The program is in the state the constructor call p left.
Constructed(p) ==
        /\ sharpenEnabled = p.sharpenEnabled
        /\ bloomEnabled = p.bloomEnabled
        /\ depthOfFieldEnabled = p.depthOfFieldEnabled
        /\ fxaaEnabled = p.fxaaEnabled
        /\ chromaticAberrationEnabled = p.chromaticAberrationEnabled
        /\ buildAllowed = p.buildAllowed
        /\ bloomScale = p.bloomScale
        /\ originalCameras = p.originalCameras
        /\ cameras = p.cameras
        /\ sharpen = p.sharpen
        /\ depthOfField = p.depthOfField
        /\ bloom = p.bloom
        /\ fxaa = p.fxaa
        /\ imageProcessing = p.imageProcessing
        /\ chromaticAberration = p.chromaticAberration
        /\ renderEffects = p.renderEffects
        /\ prevPostProcess = p.prevPostProcess
        /\ prevPrevPostProcess = p.prevPrevPostProcess
        /\ autoClear = Collect(p.autoClear, Linked(p))
        /\ output = Collect(p.output, Linked(p))
        /\ scaleOf = Collect(p.scaleOf, Blooms(p))
        /\ attachedCameras = p.attachedCameras
        /\ nextId = p.nextId
        /\ msaaEnabled = p.msaaEnabled
        /\ imageProcessingEnabled = p.imageProcessingEnabled
        /\ depthOfFieldBlurLevel = p.depthOfFieldBlurLevel
        /\ bloomKernel = p.bloomKernel
        /\ bloomWeight = p.bloomWeight
        /\ hdr = p.hdr
        /\ defaultPipelineTextureType = p.defaultPipelineTextureType
        /\ caps = p.caps
        /\ webGL2 = p.webGL2
        /\ kernelOf = Collect(p.kernelOf, Live(p))
        /\ weightOf = Collect(p.weightOf, Live(p))
        /\ blurOf = Collect(p.blurOf, Live(p))
        /\ lensOf = Collect(p.lensOf, Live(p))
        /\ multisampled = p.multisampled \cap Live(p)
        /\ disposed = Disposed(p) \cap Live(p)

Init ==
    \E cams \in CameraLists, automaticBuild \in BOOLEAN :
        Constructed(Constructor(cams, automaticBuild))

\* Any HDR request on any engine.
InitOnAnyEngine ==
    \E hdrRequested \in BOOLEAN, capsRead \in Caps, canMSAA \in BOOLEAN,
       cams \in CameraLists, automaticBuild \in BOOLEAN :
        Constructed(Construct(hdrRequested, capsRead, canMSAA, cams, automaticBuild))

\* The running operation ends in p; references are not handed out beyond MaxId.
Becomes(p) ==
    /\ p.nextId <= MaxId + 1
    /\ sharpenEnabled' = p.sharpenEnabled
    /\ bloomEnabled' = p.bloomEnabled
    /\ depthOfFieldEnabled' = p.depthOfFieldEnabled
    /\ fxaaEnabled' = p.fxaaEnabled
    /\ chromaticAberrationEnabled' = p.chromaticAberrationEnabled
    /\ buildAllowed' = p.buildAllowed
    /\ bloomScale' = p.bloomScale
    /\ originalCameras' = p.originalCameras
    /\ cameras' = p.cameras
    /\ sharpen' = p.sharpen
    /\ depthOfField' = p.depthOfField
    /\ bloom' = p.bloom
    /\ fxaa' = p.fxaa
    /\ imageProcessing' = p.imageProcessing
    /\ chromaticAberration' = p.chromaticAberration
    /\ renderEffects' = p.renderEffects
    /\ prevPostProcess' = p.prevPostProcess
    /\ prevPrevPostProcess' = p.prevPrevPostProcess
    /\ autoClear' = Collect(p.autoClear, Linked(p))
    /\ output' = Collect(p.output, Linked(p))
    /\ scaleOf' = Collect(p.scaleOf, Blooms(p))
    /\ attachedCameras' = p.attachedCameras
    /\ nextId' = p.nextId
    /\ msaaEnabled' = p.msaaEnabled
    /\ imageProcessingEnabled' = p.imageProcessingEnabled
    /\ depthOfFieldBlurLevel' = p.depthOfFieldBlurLevel
    /\ bloomKernel' = p.bloomKernel
    /\ bloomWeight' = p.bloomWeight
    /\ hdr' = p.hdr
    /\ defaultPipelineTextureType' = p.defaultPipelineTextureType
    /\ caps' = p.caps
    /\ webGL2' = p.webGL2
    /\ kernelOf' = Collect(p.kernelOf, Live(p))
    /\ weightOf' = Collect(p.weightOf, Live(p))
    /\ blurOf' = Collect(p.blurOf, Live(p))
    /\ lensOf' = Collect(p.lensOf, Live(p))
    /\ multisampled' = p.multisampled \cap Live(p)
    /\ disposed' = Disposed(p) \cap Live(p)

\* ------------------------------------------------------------------- actions

\* What enableDepthRenderer(this._cameras[0]) can do in the next rebuild: with
\* no configured camera the argument is undefined and the scene may have no
\* camera to fall back on.
DepthOutcomes == IF originalCameras = << >> THEN BOOLEAN ELSE {TRUE}

DoSetSharpenEnabled ==
    \E enabled \in BOOLEAN, depthOk \in DepthOutcomes :
        LET r == SetSharpenEnabled(This, enabled, depthOk) IN Becomes(r)

DoSetBloomEnabled ==
    \E enabled \in BOOLEAN, depthOk \in DepthOutcomes :
        LET r == SetBloomEnabled(This, enabled, depthOk) IN Becomes(r)

DoSetDepthOfFieldEnabled ==
    \E enabled \in BOOLEAN, depthOk \in DepthOutcomes :
        LET r == SetDepthOfFieldEnabled(This, enabled, depthOk) IN Becomes(r)

DoSetFxaaEnabled ==
    \E enabled \in BOOLEAN, depthOk \in DepthOutcomes :
        LET r == SetFxaaEnabled(This, enabled, depthOk) IN Becomes(r)

DoSetChromaticAberrationEnabled ==
    \E enabled \in BOOLEAN, depthOk \in DepthOutcomes :
        LET r == SetChromaticAberrationEnabled(This, enabled, depthOk) IN Becomes(r)

DoSetBloomScale ==
    \E value \in BloomScales, depthOk \in DepthOutcomes :
        LET r == SetBloomScale(This, value, depthOk) IN Becomes(r)

DoSetMsaaEnabled ==
    \E enabled \in BOOLEAN, depthOk \in DepthOutcomes :
        LET r == SetMsaaEnabled(This, enabled, depthOk) IN Becomes(r)

DoSetImageProcessingEnabled ==
    \E enabled \in BOOLEAN, depthOk \in DepthOutcomes :
        LET r == SetImageProcessingEnabled(This, enabled, depthOk) IN Becomes(r)

DoSetBloomKernel ==
    \E value \in BloomKernels : LET r == SetBloomKernel(This, value) IN Becomes(r)

DoSetBloomWeight ==
    \E value \in BloomWeights : LET r == SetBloomWeight(This, value) IN Becomes(r)

DoSetDepthOfFieldBlurLevel ==
    \E value \in BlurLevels, depthOk \in DepthOutcomes :
        LET r == SetDepthOfFieldBlurLevel(This, value, depthOk) IN Becomes(r)

DoTuneDepthOfField ==
    \E field \in LensFields, value \in LensValues :
        LET r == TuneDepthOfField(This, field, value) IN Becomes(r)

DoPrepare ==
    \E depthOk \in DepthOutcomes : LET r == Prepare(This, depthOk) IN Becomes(r)

DoDispose == LET r == Dispose(This) IN Becomes(r)

DoRemoveCamera ==
    \E camera \in Range(cameras) : LET r == RemoveCamera(This, camera) IN Becomes(r)

Next ==
    \/ DoSetSharpenEnabled
    \/ DoSetBloomEnabled
    \/ DoSetDepthOfFieldEnabled
    \/ DoSetFxaaEnabled
    \/ DoSetChromaticAberrationEnabled
    \/ DoSetBloomScale
    \/ DoSetMsaaEnabled
    \/ DoSetImageProcessingEnabled
    \/ DoSetBloomKernel
    \/ DoSetBloomWeight
    \/ DoSetDepthOfFieldBlurLevel
    \/ DoTuneDepthOfField
    \/ DoPrepare
    \/ DoDispose
    \/ DoRemoveCamera

\* Every operation of the model.  The properties are checked under the
\* specifications below, each over the operations its properties are about.
Spec == Init /\ [][Next]_vars

\* The enabled flags and prepare(): the rebuild state machine.
NextBuild ==
    \/ DoSetSharpenEnabled
    \/ DoSetBloomEnabled
    \/ DoSetDepthOfFieldEnabled
    \/ DoSetFxaaEnabled
    \/ DoSetChromaticAberrationEnabled
    \/ DoPrepare

SpecBuild == Init /\ [][NextBuild]_vars

\* Instance lifecycle: replacement, teardown and cameras taken off.
NextLifecycle ==
    \/ DoSetSharpenEnabled
    \/ DoSetBloomEnabled
    \/ DoSetFxaaEnabled
    \/ DoSetBloomScale
    \/ DoPrepare
    \/ DoDispose
    \/ DoRemoveCamera

SpecLifecycle == Init /\ [][NextLifecycle]_vars

\* The bloom settings with the flags that only store a value and rebuild.
NextBloom ==
    \/ DoSetBloomEnabled
    \/ DoSetBloomKernel
    \/ DoSetBloomWeight
    \/ DoSetBloomScale
    \/ DoSetMsaaEnabled
    \/ DoSetImageProcessingEnabled
    \/ DoPrepare

SpecBloom == Init /\ [][NextBloom]_vars

\* HDR and multisampling on every kind of engine.
NextEngine ==
    \/ DoSetSharpenEnabled
    \/ DoSetFxaaEnabled
    \/ DoSetMsaaEnabled
    \/ DoPrepare

SpecEngine == InitOnAnyEngine /\ [][NextEngine]_vars

\* Replacement of the depth-of-field and bloom effects.
NextReplace ==
    \/ DoSetDepthOfFieldEnabled
    \/ DoSetBloomEnabled
    \/ DoSetDepthOfFieldBlurLevel
    \/ DoSetBloomScale
    \/ DoPrepare

SpecReplace == Init /\ [][NextReplace]_vars

\* The depth-of-field effect: its flag, its blur level and its tunable fields.
NextDepthOfField ==
    \/ DoSetDepthOfFieldEnabled
    \/ DoSetDepthOfFieldBlurLevel
    \/ DoTuneDepthOfField
    \/ DoPrepare

SpecDepthOfField == Init /\ [][NextDepthOfField]_vars

\* ------------------------------------------------------------ observations

Priority(fam) ==
    CASE fam = "Sharpen" -> 1
      [] fam = "DepthOfField" -> 2
      [] fam = "Bloom" -> 3
      [] fam = "FXAA" -> 4
      [] fam = "ChromaticAberration" -> 5

ChainFamilies(p) == { p.renderEffects[i].fam : i \in DOMAIN p.renderEffects }

EnabledFamilies(p) ==
    { fam \in Families :
        \/ fam = "Sharpen" /\ p.sharpenEnabled
        \/ fam = "DepthOfField" /\ p.depthOfFieldEnabled
        \/ fam = "Bloom" /\ p.bloomEnabled
        \/ fam = "FXAA" /\ p.fxaaEnabled
        \/ fam = "ChromaticAberration" /\ p.chromaticAberrationEnabled }

\* The passes of the chain the link policy was consulted for, in chain order.
LinkedPasses(p) == SelectSeq(p.renderEffects, LAMBDA e : e.fam # "Bloom")

\* Every call of an enabled-flag setter or of prepare() from the current state.
FlagSetterResults ==
    { SetSharpenEnabled(This, e, d) : e \in BOOLEAN, d \in DepthOutcomes }
    \cup { SetDepthOfFieldEnabled(This, e, d) : e \in BOOLEAN, d \in DepthOutcomes }
    \cup { SetBloomEnabled(This, e, d) : e \in BOOLEAN, d \in DepthOutcomes }
    \cup { SetFxaaEnabled(This, e, d) : e \in BOOLEAN, d \in DepthOutcomes }
    \cup { SetChromaticAberrationEnabled(This, e, d) : e \in BOOLEAN, d \in DepthOutcomes }

PrepareResults == { Prepare(This, d) : d \in DepthOutcomes }

ConstructorResults ==
    { Constructor(cams, automaticBuild) : cams \in CameraLists, automaticBuild \in BOOLEAN }

\* ------------------------------------------------------------------ claims

\* C1: whatever the order of the flag toggles, the chain lists its effects in
\* the order Sharpen, DepthOfField, Bloom, FXAA, ChromaticAberration and holds
\* no effect twice: priorities strictly increase along the chain.
C1_Ordering ==
    \A i, j \in DOMAIN renderEffects :
        i < j => Priority(renderEffects[i].fam) < Priority(renderEffects[j].fam)

\* A chain of all five effects, built on a pipeline with automatic building.
C1_Witness == Len(renderEffects) = 5 /\ buildAllowed

\* C2 as stated: whenever a call that reaches _buildPipeline has returned, the
\* chain holds exactly the enabled effects, in every reachable state.  (On a
\* pipeline with a camera no call of these specifications throws, so each
\* reachable state follows a call that returned.)
C2_Original ==
    originalCameras # << >> => ChainFamilies(This) = EnabledFamilies(This)

\* C2 amended: every rebuild that runs (it passed the buildAllowed gate) and
\* returns leaves the chain holding exactly the enabled effects.
C2_ChainMatchesFlags ==
    \A r \in FlagSetterResults \cup PrepareResults \cup ConstructorResults :
        (r.rebuilds = 1 /\ ~r.threw) => ChainFamilies(r) = EnabledFamilies(r)

\* A chain of three effects that matches the flags, on a pipeline whose
\* automatic building is suspended: prepare() built it.
C2_Witness ==
    /\ ~buildAllowed
    /\ Cardinality(ChainFamilies(This)) = 3
    /\ ChainFamilies(This) = EnabledFamilies(This)

\* The chain of p as a sequence of families.
FamilySeq(p) == [ i \in DOMAIN p.renderEffects |-> p.renderEffects[i].fam ]

InstanceOf(p, fam) ==
    IF fam \in ChainFamilies(p)
    THEN (CHOOSE e \in Range(p.renderEffects) : e.fam = fam).inst
    ELSE Null

\* The position in the chain of p of the pass inst, 0 when it is not there.
PositionOf(p, inst) ==
    IF \E i \in DOMAIN p.renderEffects : p.renderEffects[i].inst = inst
    THEN CHOOSE i \in DOMAIN p.renderEffects : p.renderEffects[i].inst = inst
    ELSE 0

\* What can be seen of the chain of p without comparing object identities:
\* members and order, each pass's autoClear, the position each pass shares
\* its output with (0: its own), and the cameras.
Observation(p) ==
    [ families |-> FamilySeq(p),
      autoClear |-> [ i \in DOMAIN p.renderEffects |->
                        IF p.renderEffects[i].inst \in DOMAIN p.autoClear
                        THEN << p.autoClear[p.renderEffects[i].inst] >> ELSE << >> ],
      sharing   |-> [ i \in DOMAIN p.renderEffects |->
                        IF p.renderEffects[i].inst \in DOMAIN p.output
                        THEN << PositionOf(p, p.output[p.renderEffects[i].inst]) >>
                        ELSE << >> ],
      cameras   |-> p.cameras,
      attached  |-> p.attachedCameras ]

\* C5: a second rebuild straight after a first, with no configuration change
\* between them, leaves what the first left: same families in the same order,
\* same autoClear values, same sharing by position, same cameras.
C5_Idempotent ==
    \A d1, d2 \in DepthOutcomes :
        LET once  == Prepare(This, d1)
            twice == Prepare(once, d2)
        IN  (~once.threw /\ ~twice.threw) =>
                /\ twice.rebuilds = 2
                /\ Observation(twice) = Observation(once)

\* A chain of five on two cameras that one more rebuild reproduces, around a
\* new FXAA instance.
C5_Witness ==
    /\ Len(renderEffects) = 5
    /\ Cardinality(attachedCameras) = 2
    /\ LET again == Prepare(This, TRUE)
       IN  Observation(again) = Observation(This) /\ again.fxaa # fxaa

\* C6: no rebuild replaces the Sharpen or the ChromaticAberration instance and
\* every rebuild with FXAA enabled puts a newly created FXAA instance in the
\* chain; with automatic building on, fxaaEnabled true, false, true gives two
\* different FXAA instances and sharpenEnabled true, false, true gives the
\* same Sharpen instance twice.
C6_LifecycleIsolation ==
    /\ \A r \in FlagSetterResults \cup PrepareResults :
          /\ r.sharpen = sharpen
          /\ r.chromaticAberration = chromaticAberration
          /\ (r.rebuilds = 1 /\ ~r.threw /\ r.fxaaEnabled) =>
                /\ r.fxaa >= nextId
                /\ r.fxaa \in r.created
                /\ InstanceOf(r, "FXAA") = r.fxaa
    /\ (buildAllowed /\ ~fxaaEnabled) =>
          \A d \in DepthOutcomes :
             LET first  == SetFxaaEnabled(This, TRUE, d)
                 off    == SetFxaaEnabled(first, FALSE, d)
                 second == SetFxaaEnabled(off, TRUE, d)
             IN  ~second.threw =>
                    /\ InstanceOf(first, "FXAA") # Null
                    /\ InstanceOf(off, "FXAA") = Null
                    /\ InstanceOf(second, "FXAA") # Null
                    /\ InstanceOf(second, "FXAA") # InstanceOf(first, "FXAA")
    /\ (buildAllowed /\ ~sharpenEnabled) =>
          \A d \in DepthOutcomes :
             LET first  == SetSharpenEnabled(This, TRUE, d)
                 off    == SetSharpenEnabled(first, FALSE, d)
                 second == SetSharpenEnabled(off, TRUE, d)
             IN  ~second.threw =>
                    /\ InstanceOf(first, "Sharpen") # Null
                    /\ InstanceOf(off, "Sharpen") = Null
                    /\ InstanceOf(second, "Sharpen") = InstanceOf(first, "Sharpen")

\* Automatic building on; the chain holds a second FXAA instance (the first
\* one was 5) next to the Sharpen instance of the constructor.
C6_Witness ==
    /\ buildAllowed
    /\ InstanceOf(This, "FXAA") > 5
    /\ InstanceOf(This, "Sharpen") = 1

\* Three flags flipped, as the setters do it.
ThreeToggles(p, d) ==
    SetFxaaEnabled(
        SetBloomEnabled(
            SetSharpenEnabled(p, ~p.sharpenEnabled, d), ~p.bloomEnabled, d),
        ~p.fxaaEnabled, d)

\* C7: while buildAllowed is false a flag setter changes its flag and nothing
\* else (no rebuild, no disposal, no new instance, same chain and cameras);
\* one prepare() then runs exactly one rebuild, whose chain holds the effects
\* enabled by then, also after three toggles in a row.
C7_GateBatching ==
    ~buildAllowed =>
        /\ \A e \in BOOLEAN, d \in DepthOutcomes :
              /\ SetSharpenEnabled(This, e, d) = [This EXCEPT !.sharpenEnabled = e]
              /\ SetDepthOfFieldEnabled(This, e, d) = [This EXCEPT !.depthOfFieldEnabled = e]
              /\ SetBloomEnabled(This, e, d) = [This EXCEPT !.bloomEnabled = e]
              /\ SetFxaaEnabled(This, e, d) = [This EXCEPT !.fxaaEnabled = e]
              /\ SetChromaticAberrationEnabled(This, e, d) =
                    [This EXCEPT !.chromaticAberrationEnabled = e]
        /\ \A d \in DepthOutcomes :
              LET r == Prepare(This, d)
              IN  /\ r.rebuilds = 1
                  /\ ~r.threw => ChainFamilies(r) = EnabledFamilies(This)
        /\ \A d \in DepthOutcomes :
              LET batch == ThreeToggles(This, d)
                  r == Prepare(batch, d)
              IN  /\ batch.rebuilds = 0
                  /\ batch.renderEffects = renderEffects
                  /\ r.rebuilds = 1
                  /\ ~r.threw => ChainFamilies(r) = EnabledFamilies(batch)

\* Suspended, with a chain that prepare() built and flag changes made since.
C7_Witness ==
    /\ ~buildAllowed
    /\ renderEffects # << >>
    /\ Cardinality(EnabledFamilies(This) \ ChainFamilies(This)) >= 2

\* The disposal calls of p made on instances of family fam, in call order.
DisposalsOf(p, fam) == SelectSeq(p.disposals, LAMBDA x : x.fam = fam)

\* What C8 says of bloomScale set to value, a value other than the current
\* one, while Bloom is enabled: the old instance is disposed once for each
\* camera of _cameras, a new instance with the new scale takes its place, one
\* rebuild follows, and the chain then holds the new instance, not the old.
BloomScaleReplaces(value, d) ==
    LET r == SetBloomScale(This, value, d)
    IN  /\ DisposalsOf(r, "Bloom") =
              [ i \in DOMAIN cameras |-> Disposal("Bloom", bloom, cameras[i]) ]
        /\ r.bloom # bloom
        /\ r.bloom \in r.created
        /\ r.scaleOf[r.bloom] = value
        /\ r.bloomScale = value
        /\ r.rebuilds = 1
        /\ ~r.threw =>
              /\ InstanceOf(r, "Bloom") = r.bloom
              /\ \A i \in DOMAIN r.renderEffects : r.renderEffects[i].inst # bloom

\* C8 as stated: whenever Bloom is enabled.
C8_Original ==
    \A value \in BloomScales \ {bloomScale}, d \in DepthOutcomes :
        (bloomEnabled /\ bloom # Null) => BloomScaleReplaces(value, d)

\* C8 amended: with automatic building on (buildAllowed = true), setting
\* bloomScale to another value while Bloom is enabled disposes the old Bloom
\* instance once per camera of _cameras, puts a new instance with the new
\* scale in its place and runs exactly one rebuild, after which the chain
\* holds the new instance and not the old one.
C8_BloomScaleReplaces ==
    \A value \in BloomScales \ {bloomScale}, d \in DepthOutcomes :
        (buildAllowed /\ bloomEnabled /\ bloom # Null) => BloomScaleReplaces(value, d)

\* Bloom replaced by an instance of scale 0.25 that the rebuild put in the
\* chain, on a pipeline with two cameras and automatic building.
C8_Witness ==
    /\ buildAllowed /\ bloomEnabled
    /\ bloom > 4
    /\ InstanceOf(This, "Bloom") = bloom
    /\ scaleOf[bloom] = 25 /\ bloomScale = 25
    /\ Len(cameras) = 2

\* C9: prepare() runs one rebuild whatever buildAllowed is, the rebuild is a
\* full one (the chain holds the enabled effects) and buildAllowed is, when
\* prepare() returns, what it was before the call.
C9_PrepareRestoresGate ==
    \A d \in DepthOutcomes :
        LET r == Prepare(This, d)
        IN  /\ r.rebuilds = 1
            /\ ~r.threw =>
                  /\ r.buildAllowed = buildAllowed
                  /\ ChainFamilies(r) = EnabledFamilies(This)
                  /\ r.attachedCameras = Range(originalCameras)

\* A pipeline still suspended after prepare() attached it to its cameras.
C9_Witness == ~buildAllowed /\ attachedCameras # {}

\* C10: a flag setter or prepare() - every call that can run a rebuild without
\* replacing an instance - disposes FXAA and ImageProcessing instances only
\* and leaves the four long-lived handles as they were.
C10_RebuildKeepsLongLived ==
    \A r \in FlagSetterResults \cup PrepareResults :
        /\ \A i \in DOMAIN r.disposals :
              r.disposals[i].fam \in {"FXAA", "ImageProcessing"}
        /\ r.sharpen = sharpen
        /\ r.depthOfField = depthOfField
        /\ r.bloom = bloom
        /\ r.chromaticAberration = chromaticAberration
        /\ r.rebuilds = 1 =>
              DisposalsOf(r, "FXAA") =
                 IF fxaa = Null THEN << >>
                 ELSE [ i \in DOMAIN cameras |-> Disposal("FXAA", fxaa, cameras[i]) ]

\* Rebuilds have disposed an FXAA instance for the cameras (the one in the
\* chain is not the first) and the long-lived instances are the constructor's.
C10_Witness ==
    /\ fxaa > 5 /\ cameras # << >>
    /\ sharpen = 1 /\ depthOfField = 2 /\ bloom = 3 /\ chromaticAberration = 4

\* The effect instances the pipeline holds: its non-null handles.
Held(p) ==
    { h \in { [fam |-> "ImageProcessing", inst |-> p.imageProcessing],
              [fam |-> "FXAA", inst |-> p.fxaa],
              [fam |-> "Sharpen", inst |-> p.sharpen],
              [fam |-> "DepthOfField", inst |-> p.depthOfField],
              [fam |-> "Bloom", inst |-> p.bloom],
              [fam |-> "ChromaticAberration", inst |-> p.chromaticAberration] } :
        h.inst # Null }

\* C11: dispose() disposes every effect instance the pipeline holds once for
\* each camera of the pipeline and nothing else, leaves all six handles null,
\* and leaves the pipeline attached to no camera.
C11_FullTeardown ==
    LET r == Dispose(This)
    IN  /\ \A h \in Held(This) : \A c \in Range(cameras) :
               Cardinality({ i \in DOMAIN r.disposals :
                               r.disposals[i] = Disposal(h.fam, h.inst, c) }) = 1
        /\ Len(r.disposals) = Cardinality(Held(This)) * Len(cameras)
        /\ Held(r) = {}
        /\ r.created = {}
        /\ r.attachedCameras = {}

\* The pipeline after dispose(): two cameras, FXAA in the last chain.
C11_Witness ==
    /\ sharpen = Null /\ depthOfField = Null /\ bloom = Null
    /\ chromaticAberration = Null /\ fxaa = Null /\ imageProcessing = Null
    /\ Len(cameras) = 2 /\ attachedCameras = {}
    /\ \E i \in DOMAIN renderEffects : renderEffects[i].fam = "FXAA"

\* The results of giving each of the seven enabled flags its other value.
FlagChangeResults ==
    { SetSharpenEnabled(This, ~sharpenEnabled, d) : d \in DepthOutcomes }
    \cup { SetBloomEnabled(This, ~bloomEnabled, d) : d \in DepthOutcomes }
    \cup { SetDepthOfFieldEnabled(This, ~depthOfFieldEnabled, d) : d \in DepthOutcomes }
    \cup { SetFxaaEnabled(This, ~fxaaEnabled, d) : d \in DepthOutcomes }
    \cup { SetMsaaEnabled(This, ~msaaEnabled, d) : d \in DepthOutcomes }
    \cup { SetImageProcessingEnabled(This, ~imageProcessingEnabled, d) : d \in DepthOutcomes }
    \cup { SetChromaticAberrationEnabled(This, ~chromaticAberrationEnabled, d) :
             d \in DepthOutcomes }

\* C12 as stated: with automatic building on, a change of bloomKernel
\* triggers a rebuild, as a change of each of the seven enabled flags does.
C12_Original ==
    buildAllowed =>
        /\ \A r \in FlagChangeResults : r.rebuilds = 1
        /\ \A value \in BloomKernels \ {bloomKernel} :
               SetBloomKernel(This, value).rebuilds = 1

\* C12, amended: with automatic building on, a change of each of the seven
\* enabled flags triggers one rebuild; an assignment to bloomKernel triggers
\* none, whatever buildAllowed is: it stores the value and leaves the chain,
\* the cameras and the current BloomEffect (with the kernel it was built
\* with) as they were.
C12_KernelStoredOnly ==
    /\ buildAllowed => \A r \in FlagChangeResults : r.rebuilds = 1
    /\ \A value \in BloomKernels :
           LET r == SetBloomKernel(This, value)
           IN  /\ r.bloomKernel = value
               /\ r.rebuilds = 0 /\ r.created = {} /\ r.disposals = << >>
               /\ r.calls = << >>
               /\ r.bloom = bloom /\ r.kernelOf = kernelOf
               /\ r.renderEffects = renderEffects
               /\ r.attachedCameras = attachedCameras

\* Automatic building on, bloomKernel changed, Bloom in the chain still with
\* the kernel it was constructed with.
C12_Witness ==
    /\ buildAllowed /\ msaaEnabled /\ ~imageProcessingEnabled
    /\ bloomKernel # InitialBloomKernel
    /\ \E i \in DOMAIN renderEffects :
           /\ renderEffects[i].inst = bloom
           /\ kernelOf[bloom] = InitialBloomKernel

\* C13: the bloomWeight setter runs no rebuild, creates and disposes nothing
\* and calls no collaborator; it leaves every handle (the Bloom instance
\* included), the chain, the chain-position fields, the link settings and the
\* cameras as they were; when it returns the stored bloomWeight is the value
\* given, and a value that differs from the stored one is also the weight of
\* the current Bloom instance.
C13_WeightInPlace ==
    \A value \in BloomWeights :
        LET r == SetBloomWeight(This, value)
        IN  /\ r.rebuilds = 0 /\ r.created = {} /\ r.disposals = << >>
            /\ r.calls = << >>
            /\ Held(r) = Held(This)
            /\ r.renderEffects = renderEffects
            /\ r.prevPostProcess = prevPostProcess
            /\ r.prevPrevPostProcess = prevPrevPostProcess
            /\ r.autoClear = autoClear /\ r.output = output
            /\ r.cameras = cameras /\ r.attachedCameras = attachedCameras
            /\ ~r.threw =>
                  /\ r.bloomWeight = value
                  /\ value # bloomWeight =>
                        /\ bloom \in DOMAIN r.weightOf
                        /\ r.weightOf[bloom] = value

\* The weight set on the Bloom instance of a built, attached chain.
C13_Witness ==
    /\ bloomWeight # InitialBloomWeight
    /\ bloom \in DOMAIN weightOf /\ weightOf[bloom] = bloomWeight
    /\ attachedCameras # {}
    /\ \E i \in DOMAIN renderEffects : renderEffects[i].inst = bloom

\* C14: the serialized object carries customType = "DefaultRenderingPipeline",
\* Parse passes the HDR flag of the serialized object to the constructor, and
\* on an engine with the same capabilities the reconstructed pipeline has the
\* texture type and the HDR flag of the serialized pipeline.
C14_ParseKeepsHdr ==
    LET source == Serialize(This)
        r == Parse(source, caps, webGL2)
    IN  /\ source.customType = "DefaultRenderingPipeline"
        /\ ParseHdrArgument(source) = source.hdr
        /\ r.hdr = hdr
        /\ r.defaultPipelineTextureType = defaultPipelineTextureType

\* C15: a rebuild that runs to its end while imageProcessingEnabled is true
\* leaves in the imageProcessing handle an instance it has constructed, not
\* the one held before, and has disposed the one held before for each camera.
C15_FreshImageProcessing ==
    \A r \in PrepareResults :
        (imageProcessingEnabled /\ ~r.threw) =>
            /\ r.imageProcessing # Null
            /\ r.imageProcessing # imageProcessing
            /\ r.imageProcessing \in r.created
            /\ imageProcessing # Null =>
                  \A c \in Range(cameras) :
                      \E i \in DOMAIN r.disposals :
                          r.disposals[i] = Disposal("ImageProcessing", imageProcessing, c)

\* What the depthOfFieldBlurLevel setter does with a value other than the
\* current one, apart from the rebuild: a new DepthOfFieldEffect with that
\* blur level and the four fields of the old one, the old one disposed once
\* for each camera of the pipeline and nothing else disposed by the setter.
BlurLevelReplaces(r, value) ==
    /\ r.depthOfField \in r.created
    /\ r.depthOfField # depthOfField
    /\ r.depthOfFieldBlurLevel = value
    /\ r.blurOf[r.depthOfField] = value
    /\ r.lensOf[r.depthOfField] = lensOf[depthOfField]
    /\ Len(DisposalsOf(r, "DepthOfField")) = Len(cameras)
    /\ \A c \in Range(cameras) :
           \E i \in DOMAIN r.disposals :
               r.disposals[i] = Disposal("DepthOfField", depthOfField, c)

\* C16 as stated: a different value replaces the instance, disposes the old
\* one per camera and is followed by one rebuild; the current value does
\* nothing.
C16_Original ==
    \A value \in BlurLevels, d \in DepthOutcomes :
        LET r == SetDepthOfFieldBlurLevel(This, value, d)
        IN  IF value = depthOfFieldBlurLevel THEN r = This
            ELSE BlurLevelReplaces(r, value) /\ r.rebuilds = 1

\* C16, amended: a different value replaces the instance and disposes the
\* old one per camera; one rebuild follows when buildAllowed is true and none
\* when it is false; the current value does nothing.
C16_BlurLevelReplaces ==
    \A value \in BlurLevels, d \in DepthOutcomes :
        LET r == SetDepthOfFieldBlurLevel(This, value, d)
        IN  IF value = depthOfFieldBlurLevel THEN r = This
            ELSE /\ BlurLevelReplaces(r, value)
                 /\ r.rebuilds = (IF buildAllowed THEN 1 ELSE 0)

\* A replaced depth-of-field effect in a built chain, carrying tuned fields.
C16_Witness ==
    /\ buildAllowed /\ depthOfFieldBlurLevel = "High"
    /\ depthOfField \in 5..MaxId
    /\ lensOf[depthOfField]["lensSize"] = 1 /\ lensOf[depthOfField]["fStop"] = 0
    /\ Len(cameras) = 2
    /\ \E i \in DOMAIN renderEffects : renderEffects[i].inst = depthOfField

\* The results of every operation that can follow construction.
OperationResults ==
    FlagChangeResults \cup PrepareResults
    \cup { SetBloomScale(This, v, d) : v \in BloomScales, d \in DepthOutcomes }
    \cup { SetDepthOfFieldBlurLevel(This, v, d) : v \in BlurLevels, d \in DepthOutcomes }
    \cup { SetBloomWeight(This, v) : v \in BloomWeights }
    \cup { SetBloomKernel(This, v) : v \in BloomKernels }
    \cup { Dispose(This) }
    \cup { RemoveCamera(This, c) : c \in Range(cameras) }

\* C17: a rebuild that runs disposes the transient effects it holds, and only
\* those, once for each camera the pipeline has at that time; after all of
\* these calls it detaches those cameras, and then, when it runs to its end,
\* attaches the configured cameras; it leaves _cameras equal to
\* originalCameras and the pipeline attached to exactly those; and no
\* operation changes originalCameras.
C17_RebuildRestoresCameras ==
    /\ \A r \in PrepareResults :
         /\ r.rebuilds = 1
         /\ Len(r.disposals) =
                Cardinality({ h \in Held(This) : h.fam \in {"FXAA", "ImageProcessing"} })
                * Len(cameras)
         /\ \A c \in Range(cameras) :
                fxaa # Null => \E i \in DOMAIN r.disposals :
                                  r.disposals[i] = Disposal("FXAA", fxaa, c)
         /\ Len(r.calls) >= 1
         /\ r.calls[1] = [ call |-> "detachCamerasFromRenderPipeline", cameras |-> cameras,
                           disposalsBefore |-> Len(r.disposals) ]
         /\ r.cameras = originalCameras
         /\ ~r.threw =>
               /\ Len(r.calls) >= 2
               /\ r.calls[2] = [ call |-> "attachCamerasToRenderPipeline",
                                 cameras |-> originalCameras,
                                 disposalsBefore |-> Len(r.disposals) ]
               /\ r.attachedCameras = Range(originalCameras)
    /\ \A r \in OperationResults : r.originalCameras = originalCameras

\* A camera has been taken off a built pipeline that holds an FXAA pass.
C17_Witness ==
    /\ Len(originalCameras) = 2 /\ Len(cameras) = 1
    /\ attachedCameras = Range(cameras)
    /\ fxaa # Null /\ sharpen # Null

\* The attempts to enable MSAA among the calls of p.
MSAAAttempts(p) == SelectSeq(p.calls, LAMBDA c : c.call = "_enableMSAAOnFirstPostProcess")

\* C18: with msaaEnabled true a rebuild that runs to its end makes one
\* attempt to enable MSAA, as its last call, after the cameras were attached;
\* a successful attempt multisamples the first pass of the chain and nothing
\* else, a failed one gives one warning and multisamples nothing; either way
\* the chain members with their instances, their order, their link settings
\* and the cameras are those the same rebuild leaves with msaaEnabled false.
\* With msaaEnabled false the rebuild makes no attempt and gives no warning.
C18_MsaaAttempt ==
    \A d \in DepthOutcomes :
        LET r == Prepare(This, d)
            r0 == Prepare([This EXCEPT !.msaaEnabled = FALSE], d)
        IN  /\ (msaaEnabled /\ ~r.threw) =>
                /\ Len(MSAAAttempts(r)) = 1
                /\ r.calls[Len(r.calls)].call = "_enableMSAAOnFirstPostProcess"
                /\ r.calls[Len(r.calls) - 1] =
                       [ call |-> "attachCamerasToRenderPipeline", cameras |-> r.cameras,
                         disposalsBefore |-> Len(r.disposals) ]
                /\ IF r.warnings = 0
                   THEN r.multisampled = multisampled \cup { r.renderEffects[1].inst }
                   ELSE r.warnings = 1 /\ r.multisampled = multisampled
                /\ ~webGL2 => r.warnings = 1
                /\ Observation(r) = Observation(r0)
                /\ r.renderEffects = r0.renderEffects
                /\ r.rebuilds = 1
            /\ ~msaaEnabled =>
                /\ MSAAAttempts(r) = << >>
                /\ r.warnings = 0
                /\ r.multisampled = multisampled

\* MSAA requested on an engine that cannot multisample: the chain is built
\* and attached, no pass is multisampled.
C18_Witness ==
    /\ msaaEnabled /\ ~webGL2
    /\ Len(renderEffects) = 2 /\ attachedCameras # {}
    /\ multisampled = {}

\* C19: the constructor stores as texture type half-float when HDR is
\* requested and half-float render is supported, float when HDR is requested
\* and only float render is supported, unsigned-int otherwise, and stores the
\* HDR flag as false when HDR is not requested or neither capability is
\* present; the texture type is always one of the three and agrees with the
\* stored HDR flag and the capabilities; no operation changes either.
C19_TextureType ==
    /\ \A hdrRequested \in BOOLEAN, capsRead \in Caps,
          cams \in CameraLists, automaticBuild \in BOOLEAN :
           LET r == Construct(hdrRequested, capsRead, webGL2, cams, automaticBuild)
               half == capsRead.textureHalfFloatRender
               float == capsRead.textureFloatRender
           IN  /\ (hdrRequested /\ half) =>
                      r.defaultPipelineTextureType = "TEXTURETYPE_HALF_FLOAT"
               /\ (hdrRequested /\ ~half /\ float) =>
                      r.defaultPipelineTextureType = "TEXTURETYPE_FLOAT"
               /\ (~hdrRequested \/ (~half /\ ~float)) =>
                      /\ r.defaultPipelineTextureType = "TEXTURETYPE_UNSIGNED_INT"
                      /\ r.hdr = FALSE
               /\ r.hdr = (hdrRequested /\ (half \/ float))
    /\ defaultPipelineTextureType \in TextureTypes
    /\ defaultPipelineTextureType =
          (IF hdr /\ caps.textureHalfFloatRender THEN "TEXTURETYPE_HALF_FLOAT"
           ELSE IF hdr /\ caps.textureFloatRender THEN "TEXTURETYPE_FLOAT"
           ELSE "TEXTURETYPE_UNSIGNED_INT")
    /\ hdr => (caps.textureHalfFloatRender \/ caps.textureFloatRender)
    /\ \A r \in OperationResults :
           /\ r.defaultPipelineTextureType = defaultPipelineTextureType
           /\ r.hdr = hdr

\* An HDR pipeline on an engine with both capabilities, after rebuilds.
C19_Witness ==
    /\ hdr /\ caps.textureHalfFloatRender /\ caps.textureFloatRender
    /\ defaultPipelineTextureType = "TEXTURETYPE_HALF_FLOAT"
    /\ fxaa # Null /\ msaaEnabled /\ attachedCameras # {}

\* C20: no effect instance of the current chain has been disposed.
C20_NoDisposedInChain ==
    \A i \in DOMAIN renderEffects : renderEffects[i].inst \notin disposed

\* The results of the operations a disposed pipeline can still be given: the
\* enabled flags, bloomScale, bloomWeight, depthOfFieldBlurLevel and
\* prepare(), each with a depth renderer at hand, so that nothing but a null
\* handle makes one throw.
LaterResults ==
    { SetSharpenEnabled(This, ~sharpenEnabled, TRUE),
      SetBloomEnabled(This, ~bloomEnabled, TRUE),
      SetDepthOfFieldEnabled(This, ~depthOfFieldEnabled, TRUE),
      SetFxaaEnabled(This, ~fxaaEnabled, TRUE),
      SetMsaaEnabled(This, ~msaaEnabled, TRUE),
      SetImageProcessingEnabled(This, ~imageProcessingEnabled, TRUE),
      SetChromaticAberrationEnabled(This, ~chromaticAberrationEnabled, TRUE),
      Prepare(This, TRUE) }
    \cup { SetBloomScale(This, v, TRUE) : v \in BloomScales }
    \cup { SetDepthOfFieldBlurLevel(This, v, TRUE) : v \in BlurLevels }
    \cup { SetBloomWeight(This, v) : v \in BloomWeights }

\* dispose() has been called: only dispose() takes the sharpen handle away,
\* and nothing puts it back.
HasBeenDisposed == sharpen = Null

\* C21: once dispose() has been called, no later operation attaches the
\* pipeline to cameras, creates an effect instance or dereferences a handle
\* that dispose() set to null.
C21_InertAfterDispose ==
    HasBeenDisposed =>
        \A r \in LaterResults :
            /\ \A i \in DOMAIN r.calls : r.calls[i].call # "attachCamerasToRenderPipeline"
            /\ r.created = {}
            /\ ~r.threw

\* C22: once bloomWeight has been set (the stored weight is no more the one
\* the pipeline starts with), the current Bloom instance carries the stored
\* weight.
C22_WeightFollowsBloom ==
    (bloomWeight # InitialBloomWeight /\ bloom # Null) =>
        /\ bloom \in DOMAIN weightOf
        /\ weightOf[bloom] = bloomWeight
====
